---- MODULE Spec2Model ----
(***************************************************************************)
(* Session feature pipelines of Transformers4Rec's example notebooks:      *)
(*   "tutorial"        01-preprocess (src/unnamed/part_001) followed by    *)
(*                     src/examples/tutorial/02-ETL-with-NVTabular.ipynb   *)
(*   "yoochoose"       the end-to-end Yoochoose ETL (src/unnamed/part_002) *)
(*   "getting_started" the synthetic-data ETL appended to                  *)
(*                     src/examples/getting-started-session-based/         *)
(*                     02-session-based-XLNet-with-PyT.ipynb               *)
(* A data frame is a sequence of rows; every notebook cell that rebinds    *)
(* the frame is one action.  Timestamps are integral seconds counted from  *)
(* midnight of the first calendar day of the data set (a Tuesday in both   *)
(* real data sets).  A duration in days is kept as the exact fraction of   *)
(* its number of seconds over 86400.                                       *)
(***************************************************************************)
EXTENDS Integers, Sequences, FiniteSets, TLC

(* ------------------------------ bounds -------------------------------- *)
\* longest exhaustively enumerated raw frame
MaxRows == 3
\* longest generated session
MaxLong == 25

(* ------------------------- program constants -------------------------- *)
SESSIONS_MAX_LENGTH == 20
MINIMUM_SESSION_LENGTH == 2
\* Categorify(start_index=1)
START_INDEX == 1
\* sessions_gdf[sessions_gdf.day_index>=178]
FIRST_SAVED_DAY == 178
SecondsPerDay == 60 * 60 * 24
\* np.datetime64('2019-10-08'): midnight opening the eighth day of the data
FirstWeekEnd == 7 * SecondsPerDay

\* the null of a nullable column; outside every value domain
Null == 0 - 1

Pipelines == {"tutorial", "yoochoose", "getting_started"}

(* ------------------------------ inputs -------------------------------- *)
RawSessions == {7, 9}
RawItems == {3, 5}
\* 14:00 on the first day, and 13:00 on the second day (23 hours later)
EarlyTime == 14 * 3600
NextDayTime == SecondsPerDay + 13 * 3600
ShortTimes == {EarlyTime, NextDayTime}

\* category_code is null for some products of the tutorial's data set; the
\* other two data sets have an integer category for every item
CategoryOf(p, item) ==
    IF p = "tutorial" /\ item = 3 THEN Null ELSE 100 + item

\* map_day: a day in 1..9 for each session of the synthetic data
SyntheticDay(s) == (s % 9) + 1

Weekday(ts) == ((ts \div SecondsPerDay) + 1) % 7

\* 1000 * sin(2*pi*(k + 0.000001)/7), rounded, for k = weekday + 1
SinMilli(k) ==
    CASE k = 1 -> 782 [] k = 2 -> 975 [] k = 3 -> 434 [] k = 4 -> 0 - 434
      [] k = 5 -> 0 - 975 [] k = 6 -> 0 - 782 [] OTHER -> 0

get_cycled_feature_value_sin(col, max_value) ==
    IF max_value = 7 THEN SinMilli(col) ELSE 0

MkRow(p, s, i, t) ==
    [session |-> s, item |-> i, category |-> CategoryOf(p, i), ts |-> t,
     first_ts |-> Null,
     day |-> IF p = "getting_started" THEN SyntheticDay(s) ELSE Null,
     wd_sin |-> IF p = "getting_started"
                THEN get_cycled_feature_value_sin(Weekday(t) + 1, 7) ELSE Null]

\* rows of the exhaustively enumerated frames; only the tutorial's raw
\* data has rows with a null user_session
ShortRows(p) ==
    {MkRow(p, s, i, t) : s \in RawSessions, i \in RawItems, t \in ShortTimes}
      \cup (IF p = "tutorial" THEN {MkRow(p, Null, 3, EarlyTime)} ELSE {})

ShortFrames(p) == UNION {[1..n -> ShortRows(p)] : n \in 0..MaxRows}

\* generated frames: three sessions of chosen lengths on distant days,
\* each alternating between two items, laid out latest event first
GenSessions == 1..3
GenLengths == {1, 5, SESSIONS_MAX_LENGTH, MaxLong}
GenSessionId(k) == 20 + k
GenStart(p, k) ==
    CASE k = 1 -> EarlyTime
      [] k = 2 -> IF p = "yoochoose" THEN EarlyTime + 177 * SecondsPerDay
                                     ELSE NextDayTime
      [] OTHER -> IF p = "yoochoose" THEN EarlyTime + 178 * SecondsPerDay
                                     ELSE EarlyTime + 6 * SecondsPerDay
GenItem(j) == IF j % 2 = 1 THEN 3 ELSE 5

GenSession(p, k, n) ==
    [j \in 1..n |->
        MkRow(p, GenSessionId(k), GenItem(n + 1 - j), GenStart(p, k) + 60 * (n - j))]

\* one event of a fourth session eight days after the first event: past the
\* first week of the tutorial
LateRow(p) == MkRow(p, GenSessionId(4), 5, EarlyTime + 8 * SecondsPerDay)

GenFrames(p) ==
    {GenSession(p, 1, len[1]) \o GenSession(p, 2, len[2])
        \o GenSession(p, 3, len[3]) \o <<LateRow(p)>> :
            len \in [GenSessions -> GenLengths]}

RawFrames(p) == ShortFrames(p) \cup GenFrames(p)

(* ------------------------------- state -------------------------------- *)
VARIABLES
    pipeline,          \* which notebook chain runs
    pc,                \* the last cell that ran
    df,                \* the interactions frame
    sorted_df,         \* the frame as sort_values left it, before the mask
    stats,             \* what workflow.fit stored in the workflow
    encoded,           \* the frame after the row-wise operators of the graph
    groupby_features,  \* the Groupby node's output: session -> aggregates
    sessions_gdf,      \* the session records
    files,             \* day -> the three parquet files
    raw_df,            \* the interactions as they were read
    item_first_interaction_df,  \* item -> its first timestamp, once computed
    workflow_etl,      \* the workflow saved on disk
    ddf,               \* the chunks of the nvt.Dataset
    worker,            \* chunk -> how far the task of the chunk has come
    part_out,          \* chunk -> the session records of the chunk
    time_index,        \* the day of the training loop
    history,           \* the fit and evaluate calls made, in order
    ensemble,          \* the exported ensemble: workflow and model
    batch,             \* the rows sent to the inference server
    response,          \* what the ensemble's workflow made of the batch
    loaded,            \* the models the inference server has loaded
    requests,          \* the calls the inference server received, in order
    printed            \* the lines visualize_response printed

\* the state of the chunked run of the workflow
dataset_vars == <<ddf, worker, part_out>>
\* the state of the training and inference notebooks
serving_vars == <<time_index, history, ensemble, batch, response, loaded, requests, printed>>

vars == <<pipeline, pc, df, sorted_df, stats, encoded, groupby_features, sessions_gdf, files,
          raw_df, item_first_interaction_df, workflow_etl, dataset_vars, serving_vars>>

Unfitted ==
    [fitted |-> FALSE, session |-> {}, item |-> {}, category |-> {},
     n |-> 0, sum |-> 0, sumsq |-> 0]

\* nothing computed, saved, trained or served yet
NoTable == <<>>
NoFile == [fitted |-> FALSE]
NoModel == [workflow |-> NoFile, model |-> <<>>]

Fresh ==
    /\ sorted_df = <<>>
    /\ stats = Unfitted
    /\ encoded = <<>>
    /\ groupby_features = <<>>
    /\ sessions_gdf = {}
    /\ files = <<>>
    /\ raw_df = df
    /\ item_first_interaction_df = NoTable
    /\ workflow_etl = NoFile
    /\ ddf = <<>>
    /\ worker = <<>>
    /\ part_out = <<>>
    /\ time_index = Null
    /\ history = <<>>
    /\ ensemble = NoModel
    /\ batch = <<>>
    /\ response = <<>>
    /\ loaded = {}
    /\ requests = <<>>
    /\ printed = <<>>

Init ==
    /\ pipeline \in Pipelines
    /\ df \in RawFrames(pipeline)
    /\ pc = "raw"
    /\ Fresh

(* --------------------------- frame helpers ---------------------------- *)
Range(f) == {f[i] : i \in DOMAIN f}

Min(S) == CHOOSE x \in S : \A y \in S : x <= y

Bool01(b) == IF b THEN 1 ELSE 0

\* df[mask]: the rows whose mask entry is TRUE, in frame order
Filter(frame, mask) ==
    LET kept == {i \in 1..Len(frame) : mask[i]}
        rank == [i \in kept |-> Cardinality({j \in kept : j <= i})]
    IN [k \in 1..Cardinality(kept) |-> frame[CHOOSE i \in kept : rank[i] = k]]

\* lexicographic order of sort keys (tuples of integers of one length)
RECURSIVE KeyLess(_, _)
KeyLess(a, b) ==
    /\ a # <<>>
    /\ \/ Head(a) < Head(b)
       \/ Head(a) = Head(b) /\ KeyLess(Tail(a), Tail(b))

\* sort_values: every arrangement of the rows in ascending key order.  The
\* library promises no order among rows of equal key, so each arrangement
\* of such rows is a possible result: `tied' are the keys several rows
\* share, and one result exists for each choice of a permutation of the
\* rows of every tied key.
sort_values(frame, keys) ==
    LET n == Len(frame)
        members(k) == {i \in 1..n : keys[i] = k}
        tied == {k \in Range(keys) : Cardinality(members(k)) > 1}
        below == [i \in 1..n |-> Cardinality({j \in 1..n : KeyLess(keys[j], keys[i])})]
        arrangements ==
            {f \in [tied -> UNION {Permutations(members(k)) : k \in tied}] :
                \A k \in tied : f[k] \in Permutations(members(k))}
        position(f) ==
            [i \in 1..n |->
                below[i] + (IF keys[i] \in tied
                            THEN Cardinality({j \in members(keys[i]) : j <= f[keys[i]][i]})
                            ELSE 1)]
        arranged(pos) == [p \in 1..n |-> frame[CHOOSE i \in 1..n : pos[i] = p]]
    IN {arranged(position(f)) : f \in arrangements}

(* --------------- 01-preprocess / Yoochoose preprocessing -------------- *)
\* raw_df = raw_df[raw_df['user_session'].isnull()==False]
RemoveNullSessions ==
    /\ pipeline = "tutorial" /\ pc = "raw"
    /\ df' = Filter(df, [i \in 1..Len(df) |-> df[i].session # Null])
    /\ pc' = "nonnull"
    /\ UNCHANGED <<pipeline, sorted_df, stats, encoded, groupby_features, sessions_gdf, files,
                 raw_df, item_first_interaction_df, workflow_etl, dataset_vars, serving_vars>>

\* a Categorify whose start_index is lost: codes count from 0
Categorify_default_start(uniques, start_index, v) ==
    IF v = Null \/ v \notin uniques THEN 0
    ELSE Cardinality({u \in uniques : u <= v})

\* Categorify: null and unseen values take the first code, the distinct
\* values seen at fit time the following codes in ascending order
Categorify(uniques, start_index, v) ==
    IF v = Null \/ v \notin uniques THEN start_index
    ELSE start_index + Cardinality({u \in uniques : u <= v})

Uniques(frame, col) == {frame[i][col] : i \in 1..Len(frame)} \ {Null}

\* cat_feats = ['user_session'] >> nvt.ops.Categorify(); fit and transform
CategorifySession ==
    /\ pipeline = "tutorial" /\ pc = "nonnull"
    /\ LET u == Uniques(df, "session")
       IN df' = [i \in 1..Len(df) |->
                    [df[i] EXCEPT !.session = Categorify(u, 0, df[i].session)]]
    /\ pc' = "categorified"
    /\ UNCHANGED <<pipeline, sorted_df, stats, encoded, groupby_features, sessions_gdf, files,
                 raw_df, item_first_interaction_df, workflow_etl, dataset_vars, serving_vars>>

\* a shift by two rows
Shift1_by_two(frame, col, fill) ==
    [i \in 1..Len(frame) |-> IF i <= 2 THEN fill ELSE frame[i - 2][col]]

\* col.shift(1).fillna(fill): the previous row's value, fill on the first row
Shift1(frame, col, fill) ==
    [i \in 1..Len(frame) |-> IF i = 1 THEN fill ELSE frame[i - 1][col]]

\* ~((session == session_past) & (item == item_past)); a comparison with a
\* null is null, and a null mask entry selects no row
KeepMask(frame, session_past, item_past) ==
    [i \in 1..Len(frame) |->
        IF session_past[i] = Null \/ item_past[i] = Null THEN FALSE
        ELSE ~(frame[i].session = session_past[i] /\ frame[i].item = item_past[i])]

\* part_001 fills the shifted columns with 0.  part_002 calls fillna() with
\* no fill value: the first row's "past" is then left null or filled with
\* a default, whichever the installed library does.
PastFills == IF pipeline = "yoochoose" THEN {0, Null} ELSE {0}

\* sort by (session, timestamp), then drop the consecutive repetitions
SortDedup ==
    /\ \/ pipeline = "tutorial" /\ pc = "categorified"
       \/ pipeline = "yoochoose" /\ pc = "raw"
    /\ \E s \in sort_values(df, [i \in 1..Len(df) |-> <<df[i].session, df[i].ts>>]),
          fill \in PastFills :
         /\ sorted_df' = s
         /\ df' = Filter(s, KeepMask(s, Shift1(s, "session", fill),
                                        Shift1(s, "item", fill)))
    /\ pc' = "dedup"
    /\ UNCHANGED <<pipeline, stats, encoded, groupby_features, sessions_gdf, files,
                 raw_df, item_first_interaction_df, workflow_etl, dataset_vars, serving_vars>>

\* a table of the latest timestamp of every item
ItemFirstTs_latest(frame) ==
    [it \in Uniques(frame, "item") |->
        0 - Min({0 - frame[i].ts : i \in {j \in 1..Len(frame) : frame[j].item = it}})]

\* a first-seen table built from the first row of the frame alone
ItemFirstTs_first_row(frame) ==
    [it \in {frame[i].item : i \in {j \in 1..Len(frame) : j = 1}} |-> frame[1].ts]

\* df.groupby(item).agg({ts: 'min'}): item -> its earliest timestamp
ItemFirstTs(frame) ==
    [it \in Uniques(frame, "item") |->
        Min({frame[i].ts : i \in {j \in 1..Len(frame) : frame[j].item = it}})]

\* df.merge(first_ts, on=item, how='left'): null where the table has no row
MergeLeft(frame, table) ==
    [i \in 1..Len(frame) |->
        [frame[i] EXCEPT !.first_ts =
            IF frame[i].item \in DOMAIN table THEN table[frame[i].item] ELSE Null]]

FirstSeenMerge ==
    /\ pipeline \in {"tutorial", "yoochoose"} /\ pc = "dedup"
    /\ item_first_interaction_df' = ItemFirstTs(df)
    /\ df' = MergeLeft(df, item_first_interaction_df')
    /\ pc' = IF pipeline = "tutorial" THEN "merged" ELSE "etl_input"
    /\ UNCHANGED <<pipeline, sorted_df, stats, encoded, groupby_features, sessions_gdf, files,
                 raw_df, workflow_etl, dataset_vars, serving_vars>>

\* df = df[df['event_time_dt'] < np.datetime64('2019-10-08')]
FirstWeekFilter ==
    /\ pipeline = "tutorial" /\ pc = "merged"
    /\ df' = Filter(df, [i \in 1..Len(df) |-> df[i].ts < FirstWeekEnd])
    /\ pc' = "etl_input"
    /\ UNCHANGED <<pipeline, sorted_df, stats, encoded, groupby_features, sessions_gdf, files,
                 raw_df, item_first_interaction_df, workflow_etl, dataset_vars, serving_vars>>

(* ------------------------- the NVTabular workflow --------------------- *)
HasRecency(p) == p \in {"tutorial", "yoochoose"}
\* Groupby(..., sort_cols=[timestamp]) in the tutorial and Yoochoose
\* notebooks; the getting-started Groupby names no sort_cols
HasSortCols(p) == p \in {"tutorial", "yoochoose"}
\* ListSlice(0, SESSIONS_MAX_LENGTH, pad=True) against ListSlice(0,20)
HasPad_never(p) == FALSE
HasPad(p) == p \in {"tutorial", "yoochoose"}

\* an ItemRecency without the (delta_days >= 0) mask
ItemRecency_unclamped(ts, item_first_timestamp) ==
    [num |-> ts - item_first_timestamp, den |-> 60 * 60 * 24]

\* ItemRecency.transform: delta_days = (col - item_first_timestamp) /
\* (60*60*24), then delta_days * (delta_days >= 0); the quotient is kept
\* as the fraction num/den
ItemRecency(ts, item_first_timestamp) ==
    LET delta_days == [num |-> ts - item_first_timestamp, den |-> 60 * 60 * 24]
    IN [num |-> delta_days.num * Bool01(delta_days.num >= 0), den |-> delta_days.den]

RECURSIVE ILog2(_)
ILog2(n) == IF n < 2 THEN 0 ELSE 1 + ILog2(n \div 2)

\* LogOp: log(x + 1) of a fraction x = num/den, to the whole power of two:
\* log2((num + den) / den) with both logarithms rounded down
LogOp(x) == ILog2(x.num + x.den) - ILog2(x.den)

RecencyLog(row) == LogOp(ItemRecency(row.ts, row.first_ts))

RECURSIVE SumWeighted(_, _)
SumWeighted(vals, weight) ==
    IF vals = {} THEN 0
    ELSE LET v == CHOOSE x \in vals : TRUE
         IN v * weight[v] + SumWeighted(vals \ {v}, weight)

\* the sum of a sequence of integers
SumSeq(xs) ==
    LET vals == Range(xs)
    IN SumWeighted(vals, [v \in vals |-> Cardinality({i \in DOMAIN xs : xs[i] = v})])

\* Normalize.fit: count, sum and sum of squares of the column
NormalizeFit(xs) ==
    [n |-> Len(xs), sum |-> SumSeq(xs), sumsq |-> SumSeq([i \in DOMAIN xs |-> xs[i] * xs[i]])]

\* Normalize.transform: (x - mean) / std, kept exactly as the triple
\* (n*x - sum, n, n*sumsq - sum^2)
Normalize(st, x) ==
    [dev |-> st.n * x - st.sum, n |-> st.n, ss |-> st.n * st.sumsq - st.sum * st.sum]

\* workflow.fit(dataset): the unique values of every Categorify column and
\* the moments of the log recency, over all rows of the dataset
WorkflowFit(p, frame) ==
    LET norm == IF HasRecency(p)
                THEN NormalizeFit([i \in 1..Len(frame) |-> RecencyLog(frame[i])])
                ELSE [n |-> 0, sum |-> 0, sumsq |-> 0]
    IN [fitted |-> TRUE,
        session |-> Uniques(frame, "session"),
        item |-> Uniques(frame, "item"),
        category |-> Uniques(frame, "category"),
        n |-> norm.n, sum |-> norm.sum, sumsq |-> norm.sumsq]

Fit ==
    /\ \/ pc = "etl_input"
       \/ pipeline = "getting_started" /\ pc = "raw"
    /\ stats' = WorkflowFit(pipeline, df)
    /\ pc' = "fitted"
    /\ UNCHANGED <<pipeline, df, sorted_df, encoded, groupby_features, sessions_gdf, files,
                 raw_df, item_first_interaction_df, workflow_etl, dataset_vars, serving_vars>>

\* row-wise operators that give every row the session code of a null
TransformRow_one_session(p, st, row) ==
    [session |-> START_INDEX,
     item |-> Categorify(st.item, START_INDEX, row.item),
     category |-> Categorify(st.category, START_INDEX, row.category),
     ts |-> row.ts,
     day |-> row.day,
     wd_sin |-> row.wd_sin,
     recency |-> row.ts]

\* the row-wise operators of the graph, with the fitted statistics
TransformRow(p, st, row) ==
    [session |-> Categorify(st.session, START_INDEX, row.session),
     item |-> Categorify(st.item, START_INDEX, row.item),
     category |-> Categorify(st.category, START_INDEX, row.category),
     ts |-> row.ts,
     day |-> row.day,
     wd_sin |-> IF p = "getting_started" THEN row.wd_sin
                ELSE get_cycled_feature_value_sin(Weekday(row.ts) + 1, 7),
     recency |-> IF HasRecency(p) THEN Normalize(st, RecencyLog(row)) ELSE row.ts]

\* the "list" aggregation of one column over the rows of a group
ListAgg(group, col) == [i \in 1..Len(group) |-> group[i][col]]
\* a count of the distinct values instead (nunique)
CountAgg_distinct(group, col) ==
    Cardinality({group[i][col] : i \in 1..Len(group)} \ {Null})
\* the "count" aggregation: the non-null values of the column
CountAgg(group, col) == Cardinality({i \in 1..Len(group) : group[i][col] # Null})
\* the "first" aggregation
FirstAgg(group, col) == group[1][col]

\* Groupby(groupby_cols=[session], aggs=...): one output row per session
\* key, aggregating the key's rows in frame order; `rows' keeps those rows
Groupby(frame) ==
    [s \in {frame[i].session : i \in 1..Len(frame)} |->
        LET g == Filter(frame, [i \in 1..Len(frame) |-> frame[i].session = s])
        IN [rows |-> g,
            item_list |-> ListAgg(g, "item"),
            item_count |-> CountAgg(g, "item"),
            category_list |-> ListAgg(g, "category"),
            wd_sin_list |-> ListAgg(g, "wd_sin"),
            recency_list |-> ListAgg(g, "recency"),
            ts_first |-> FirstAgg(g, "ts"),
            day_first |-> FirstAgg(g, "day")]]

\* a slice anchored at the end of the list: its last end - start elements
ListSlice_last(list, start, end, pad) ==
    LET width == end - start
        skip == IF Len(list) > width THEN Len(list) - width ELSE 0
        len == IF pad THEN width ELSE Len(list) - skip
    IN [i \in 1..len |-> IF skip + i <= Len(list) THEN list[skip + i] ELSE 0]

\* ListSlice(start, end, pad): the elements start..end-1 of the list,
\* filled with 0 up to end - start elements when pad is set
ListSlice(list, start, end, pad) ==
    LET have == IF Len(list) < end THEN Len(list) ELSE end
        len == IF pad THEN end - start
               ELSE IF have > start THEN have - start ELSE 0
    IN [i \in 1..len |-> IF start + i <= Len(list) THEN list[start + i] ELSE 0]

\* a day index that counts calendar dates instead of elapsed days
day_index_calendar(col, s) ==
    ((col[s] \div SecondsPerDay) - (Min(Range(col)) \div SecondsPerDay)) + 1
\* a day index that counts from 0
day_index_from_zero(col, s) == (col[s] - Min(Range(col))) \div SecondsPerDay
\* LambdaOp(lambda col: (col - col.min()).dt.days + 1)
day_index(col, s) == ((col[s] - Min(Range(col))) \div SecondsPerDay) + 1

\* selected_features: the key, the count, the trimmed lists, the day
SessionRecord(p, groups, s) ==
    LET g == groups[s]
        first_dt == [k \in DOMAIN groups |-> groups[k].ts_first]
        trim(list) == ListSlice(list, 0, SESSIONS_MAX_LENGTH, HasPad(p))
    IN [session |-> s,
        count |-> g.item_count,
        item_list |-> trim(g.item_list),
        category_list |-> trim(g.category_list),
        wd_sin_list |-> trim(g.wd_sin_list),
        recency_list |-> trim(g.recency_list),
        day_index |-> IF p = "getting_started" THEN g.day_first
                      ELSE day_index(first_dt, s)]

\* a filter that lets sessions one event short through
filtered_sessions_short(records) ==
    {r \in records : r.count >= MINIMUM_SESSION_LENGTH - 1}
\* Filter(f=lambda df: df[count] >= MINIMUM_SESSION_LENGTH)
filtered_sessions(records) == {r \in records : r.count >= MINIMUM_SESSION_LENGTH}

\* sessions_gdf = workflow.transform(dataset)
Transform ==
    /\ pc = "fitted"
    /\ LET rows == [i \in 1..Len(df) |-> TransformRow(pipeline, stats, df[i])]
           sorts == IF HasSortCols(pipeline)
                    THEN sort_values(rows, [i \in 1..Len(rows) |-> <<rows[i].ts>>])
                    ELSE {rows}
       IN \E sorted \in sorts :
            LET groups == Groupby(sorted)
            IN /\ encoded' = rows
               /\ groupby_features' = groups
               /\ sessions_gdf' = filtered_sessions(
                      {SessionRecord(pipeline, groups, s) : s \in DOMAIN groups})
    /\ pc' = "transformed"
    /\ UNCHANGED <<pipeline, df, sorted_df, stats, files,
                 raw_df, item_first_interaction_df, workflow_etl, dataset_vars, serving_vars>>

\* sessions_gdf = sessions_gdf[sessions_gdf.day_index>=178]
LastDaysFilter ==
    /\ pipeline = "yoochoose" /\ pc = "transformed" /\ workflow_etl # NoFile
    /\ sessions_gdf' = {r \in sessions_gdf : r.day_index >= FIRST_SAVED_DAY}
    /\ pc' = "last_days"
    /\ UNCHANGED <<pipeline, df, sorted_df, stats, encoded, groupby_features, files,
                 raw_df, item_first_interaction_df, workflow_etl, dataset_vars, serving_vars>>

Splits == {"train", "valid", "test"}

\* a writer whose train file holds every record of the day
save_time_based_splits_train_all(records, split) ==
    [d \in {r.day_index : r \in records} |->
        [f \in Splits |-> {r \in records : r.day_index = d /\ (f = "train" \/ split[r] = f)}]]

\* save_time_based_splits: one directory per value of the partition column,
\* each with a train, a valid and a test file; every record of the day goes
\* to one of the three
save_time_based_splits(records, split) ==
    [d \in {r.day_index : r \in records} |->
        [f \in Splits |-> {r \in records : r.day_index = d /\ split[r] = f}]]

Save ==
    /\ \/ pipeline = "tutorial" /\ pc = "transformed"
       \/ pipeline = "getting_started" /\ pc = "transformed" /\ workflow_etl # NoFile
       \/ pipeline = "yoochoose" /\ pc = "last_days"
    /\ \E split \in [sessions_gdf -> Splits] :
          files' = save_time_based_splits(sessions_gdf, split)
    /\ pc' = "saved"
    /\ UNCHANGED <<pipeline, df, sorted_df, stats, encoded, groupby_features, sessions_gdf,
                 raw_df, item_first_interaction_df, workflow_etl, dataset_vars, serving_vars>>

\* a save that writes the workflow as it was before fit
WorkflowSaveFile_unfitted(workflow) == [workflow EXCEPT !.item = {}, !.n = 0]
\* what workflow.save writes: the fitted statistics of every operator
WorkflowSaveFile(workflow) == workflow

\* workflow.save('workflow_etl'): after the transform in the Yoochoose and
\* getting-started notebooks, after the splits are written in the tutorial
WorkflowSave ==
    /\ workflow_etl = NoFile
    /\ \/ pipeline \in {"yoochoose", "getting_started"} /\ pc = "transformed"
       \/ pipeline = "tutorial" /\ pc = "saved"
    /\ workflow_etl' = WorkflowSaveFile(stats)
    /\ UNCHANGED <<pipeline, pc, df, sorted_df, stats, encoded, groupby_features, sessions_gdf,
                 files, raw_df, item_first_interaction_df, dataset_vars, serving_vars>>

Next ==
    \/ WorkflowSave
    \/ RemoveNullSessions
    \/ CategorifySession
    \/ SortDedup
    \/ FirstSeenMerge
    \/ FirstWeekFilter
    \/ Fit
    \/ Transform
    \/ LastDaysFilter
    \/ Save

Spec == Init /\ [][Next]_vars

(* -------------- training, export and inference notebooks -------------- *)
\* start_time_window_index and final_time_window_index of the loops
start_time_window_index(p) == IF p = "yoochoose" THEN 178 ELSE 1
final_time_window_index(p) == IF p = "yoochoose" THEN 180 ELSE 7

\* a loop that evaluates on the day it has just trained on
eval_day_same(t) == t
\* time_index_eval = time_index + 1
eval_day(t) == t + 1

\* one call of fit/train or evaluate on the file of a split of a day
Call(op, day, split) == [op |-> op, day |-> day, split |-> split]

\* the head of the loop body: model.fit / trainer.train on
\* {time_index}/train.parquet, for time_index in range(start, final)
Train ==
    /\ pipeline \in {"yoochoose", "getting_started"}
    /\ workflow_etl # NoFile
    /\ \/ /\ pc = "saved"
          /\ time_index' = start_time_window_index(pipeline)
       \/ /\ pc = "evaluated"
          /\ time_index' = time_index + 1
    /\ time_index' < final_time_window_index(pipeline)
    /\ history' = Append(history, Call("fit", time_index', "train"))
    /\ pc' = "trained"
    /\ UNCHANGED <<pipeline, df, sorted_df, stats, encoded, groupby_features, sessions_gdf,
                 files, raw_df, item_first_interaction_df, workflow_etl, dataset_vars,
                 ensemble, batch, response, loaded, requests, printed>>

\* the rest of the loop body: model.evaluate / trainer.evaluate on
\* {time_index + 1}/valid.parquet
Evaluate ==
    /\ pc = "trained"
    /\ history' = Append(history, Call("evaluate", eval_day(time_index), "valid"))
    /\ pc' = "evaluated"
    /\ UNCHANGED <<pipeline, df, sorted_df, stats, encoded, groupby_features, sessions_gdf,
                 files, raw_df, item_first_interaction_df, workflow_etl, dataset_vars,
                 time_index, ensemble, batch, response, loaded, requests, printed>>

LoopDone == pc = "evaluated" /\ time_index + 1 >= final_time_window_index(pipeline)

\* the getting-started notebook evaluates once more after the loop, on
\* {time_index_eval}/valid.parquet of the last iteration
EvaluateAgain ==
    /\ pipeline = "getting_started" /\ LoopDone
    /\ history' = Append(history, Call("evaluate", eval_day(time_index), "valid"))
    /\ pc' = "reevaluated"
    /\ UNCHANGED <<pipeline, df, sorted_df, stats, encoded, groupby_features, sessions_gdf,
                 files, raw_df, item_first_interaction_df, workflow_etl, dataset_vars,
                 time_index, ensemble, batch, response, loaded, requests, printed>>

\* workflow = nvt.Workflow.load('workflow_etl')
WorkflowLoad ==
    /\ pipeline = "yoochoose" /\ LoopDone
    /\ stats' = workflow_etl
    /\ pc' = "loaded"
    /\ UNCHANGED <<pipeline, df, sorted_df, encoded, groupby_features, sessions_gdf,
                 files, raw_df, item_first_interaction_df, workflow_etl, dataset_vars,
                 serving_vars>>

\* an export of a workflow that was never fitted nor loaded
ExportEnsemble_unfitted ==
    /\ pc = "loaded"
    /\ ensemble' = [workflow |-> [Unfitted EXCEPT !.fitted = TRUE], model |-> history]
    /\ pc' = "exported"
    /\ UNCHANGED <<pipeline, df, sorted_df, stats, encoded, groupby_features, sessions_gdf,
                 files, raw_df, item_first_interaction_df, workflow_etl, dataset_vars,
                 time_index, history, batch, response, loaded, requests, printed>>

\* export_tensorflow_ensemble(model, workflow, name="t4r_tf", ...)
ExportEnsemble ==
    /\ pc = "loaded"
    /\ ensemble' = [workflow |-> stats, model |-> history]
    /\ pc' = "exported"
    /\ UNCHANGED <<pipeline, df, sorted_df, stats, encoded, groupby_features, sessions_gdf,
                 files, raw_df, item_first_interaction_df, workflow_etl, dataset_vars,
                 time_index, history, batch, response, loaded, requests, printed>>

\* the name the ensemble is exported and served under
MODEL_NAME_NVT == "t4r_tf"
\* the models of the repository: the ensemble, the workflow it runs first
\* and the TensorFlow model it runs second
ModelRepository == {MODEL_NAME_NVT, "t4r_tf_nvt", "t4r_tf_tf"}

\* one call of the server: what was asked, of which model, and whether the
\* call returned without an exception
Request(op, model, ok) == [op |-> op, model |-> model, ok |-> ok]

\* triton_client.load_model(model_name="t4r_tf") on a server started with
\* --model-control-mode=explicit: loading the ensemble loads the models it
\* is composed of; a load that fails raises and the run ends at this cell
LoadModel ==
    /\ pc = "exported"
    /\ \E ok \in BOOLEAN :
          /\ loaded' = IF ok THEN loaded \cup ModelRepository ELSE loaded
          /\ requests' = Append(requests, Request("load", MODEL_NAME_NVT, ok))
          /\ pc' = IF ok THEN "model_loaded" ELSE "load_failed"
    /\ UNCHANGED <<pipeline, df, sorted_df, stats, encoded, groupby_features, sessions_gdf,
                 files, raw_df, item_first_interaction_df, workflow_etl, dataset_vars,
                 time_index, history, ensemble, batch, response, printed>>

\* batch = interactions_merged_df[-50:]
BatchRows == 50

\* frame[-n:]
LastRows(frame, n) ==
    LET skip == IF Len(frame) > n THEN Len(frame) - n ELSE 0
    IN [i \in 1..(Len(frame) - skip) |-> frame[skip + i]]

\* a request of all the last rows, one-row sessions included
FilteredBatch_unfiltered(rows) == rows

\* batch[batch.session_id.isin(sessions_to_use[sessions_to_use.values > 1].index.values)]
FilteredBatch(rows) ==
    Filter(rows, [i \in 1..Len(rows) |->
        Cardinality({j \in 1..Len(rows) : rows[j].session = rows[i].session}) > 1])

\* the rows of the workflow's output, one per session key, in ascending
\* order of the key
GroupbyOrder(records) ==
    [k \in 1..Cardinality(records) |->
        CHOOSE r \in records : Cardinality({q \in records : q.session <= r.session}) = k]

\* visualize_response(filtered_batch, response, top_k=5, ...)
TOP_K == 5
\* the columns of output_1: one score for each item code
ItemCodes == 0..(2 * TOP_K + 1)

\* output_1 of the TensorFlow model for one session record.  The trained
\* network is not part of the state; what is kept of it is that the scores
\* are a function of the record's features and differ from column to
\* column: here they fall off with the distance from twice the code of
\* the session's last item
Logits(record) ==
    LET real == {i \in 1..Len(record.item_list) : record.item_list[i] # 0}
        last == IF real = {} THEN 0
                ELSE record.item_list[CHOOSE i \in real : \A j \in real : j <= i]
        dist(c) == IF c < 2 * last THEN 2 * last - c ELSE c - 2 * last
    IN [c \in ItemCodes |-> 0 - (2 * dist(c) + Bool01(c < 2 * last))]

\* the request: the last rows by timestamp of interactions_merged_df, less
\* the sessions with one row; the ensemble's workflow transforms them with
\* the statistics it was exported with
InferenceRequest ==
    /\ pc = "model_loaded"
    /\ \E by_time \in sort_values(df, [i \in 1..Len(df) |-> <<df[i].ts>>]) :
         LET filtered_batch == FilteredBatch(LastRows(by_time, BatchRows))
             rows == [i \in 1..Len(filtered_batch) |->
                         TransformRow(pipeline, ensemble.workflow, filtered_batch[i])]
         IN /\ batch' = filtered_batch
            /\ \E sorted \in sort_values(rows, [i \in 1..Len(rows) |-> <<rows[i].ts>>]) :
                  LET groups == Groupby(sorted)
                      records == filtered_sessions(
                            {SessionRecord(pipeline, groups, s) : s \in DOMAIN groups})
                      ordered == GroupbyOrder(records)
                  IN response' =
                        [rows |-> rows,
                         sessions |-> records,
                         output_1 |-> [k \in 1..Len(ordered) |-> Logits(ordered[k])]]
    /\ requests' = Append(requests, Request("infer", MODEL_NAME_NVT, TRUE))
    /\ pc' = "served"
    /\ UNCHANGED <<pipeline, df, sorted_df, stats, encoded, groupby_features, sessions_gdf,
                 files, raw_df, item_first_interaction_df, workflow_etl, dataset_vars,
                 time_index, history, ensemble, loaded, printed>>

\* series.drop_duplicates(): the first occurrence of every value, in order
drop_duplicates(series) ==
    Filter(series, [i \in 1..Len(series) |-> \A j \in 1..(i - 1) : series[j] # series[i]])

\* np.argpartition(predictions, -top_k, axis=1)[:, -top_k:] for one row:
\* the columns of the top_k highest scores, in no particular order
argpartition_top(row, top_k) ==
    {c \in DOMAIN row : Cardinality({d \in DOMAIN row : row[d] > row[c]}) < top_k}

\* zip(xs, ys): as many pairs as the shorter of the two has elements
Zip(xs, ys) ==
    LET n == IF Len(xs) < Len(ys) THEN Len(xs) ELSE Len(ys)
    IN [i \in 1..n |-> [session |-> xs[i], next_items |-> ys[i]]]

\* visualize_response: the distinct session ids of the batch, each printed
\* with the top_k columns of the prediction row of the same position
visualize_response(b, resp, top_k) ==
    LET sessions == drop_duplicates([i \in 1..Len(b) |-> b[i].session])
        predictions == resp.output_1
        top_preds == [i \in 1..Len(predictions) |-> argpartition_top(predictions[i], top_k)]
    IN Zip(sessions, top_preds)

VisualizeResponse ==
    /\ pc = "served"
    /\ printed' = visualize_response(batch, response, TOP_K)
    /\ pc' = "visualized"
    /\ UNCHANGED <<pipeline, df, sorted_df, stats, encoded, groupby_features, sessions_gdf,
                 files, raw_df, item_first_interaction_df, workflow_etl, dataset_vars,
                 time_index, history, ensemble, batch, response, loaded, requests>>

\* a final cell that unloads the ensemble alone
UnloadedNames_ensemble == <<MODEL_NAME_NVT>>
\* the three unload_model calls of the final cell, in order
UnloadedNames == <<MODEL_NAME_NVT, "t4r_tf_nvt", "t4r_tf_tf">>

\* unload_model(name) for each name of the final cell: the server drops
\* the named model and no other
UnloadModels ==
    /\ pc = "visualized"
    /\ loaded' = loaded \ Range(UnloadedNames)
    /\ requests' = requests \o [i \in 1..Len(UnloadedNames) |->
                                  Request("unload", UnloadedNames[i], TRUE)]
    /\ pc' = "unloaded"
    /\ UNCHANGED <<pipeline, df, sorted_df, stats, encoded, groupby_features, sessions_gdf,
                 files, raw_df, item_first_interaction_df, workflow_etl, dataset_vars,
                 time_index, history, ensemble, batch, response, printed>>

\* two sessions of two events each that run side by side: the second
\* session starts a minute after the first
InterleavedFrames(p) ==
    {<<MkRow(p, ab[1], ia[1], EarlyTime), MkRow(p, ab[2], ib[1], EarlyTime + 60),
       MkRow(p, ab[1], ia[2], NextDayTime), MkRow(p, ab[2], ib[2], NextDayTime + 60)>> :
          ab \in {x \in RawSessions \X RawSessions : x[1] # x[2]},
          ia \in [1..2 -> RawItems], ib \in [1..2 -> RawItems]}

\* the frames of the runs that go on to training and serving: every frame
\* of up to two rows, two interleaved sessions, and generated frames of
\* three sessions
ServingFrames(p) ==
    UNION {[1..n -> ShortRows(p)] : n \in 0..MINIMUM_SESSION_LENGTH}
      \cup InterleavedFrames(p)
      \cup {GenSession(p, 1, len[1]) \o GenSession(p, 2, len[2])
                \o GenSession(p, 3, len[3]) \o <<LateRow(p)>> :
                    len \in [GenSessions -> {1, 5}] \cup {[k \in GenSessions |-> MaxLong]}}

InitServing ==
    /\ pipeline \in {"yoochoose", "getting_started"}
    /\ df \in ServingFrames(pipeline)
    /\ pc = "raw"
    /\ Fresh

NextServing ==
    \/ SortDedup
    \/ FirstSeenMerge
    \/ Fit
    \/ Transform
    \/ WorkflowSave
    \/ LastDaysFilter
    \/ Save
    \/ Train
    \/ Evaluate
    \/ EvaluateAgain
    \/ WorkflowLoad
    \/ ExportEnsemble
    \/ LoadModel
    \/ InferenceRequest
    \/ VisualizeResponse
    \/ UnloadModels

SpecServing == InitServing /\ [][NextServing]_vars

(* ------------- the workflow on a Dataset of several chunks ------------ *)
\* nvt.Dataset(df) hands the frame to the workflow as a collection of row
\* ranges; how many, and where they are cut, is the library's choice
MaxParts == 2

\* frame[lo:hi]
RowRange(frame, lo, hi) == [i \in 1..(hi - lo) |-> frame[lo + i]]

\* every way of cutting the frame into at most MaxParts consecutive,
\* non-empty row ranges
Chunkings(frame) ==
    LET n == Len(frame)
        nth(S, k) == CHOOSE x \in S : Cardinality({y \in S : y <= x}) = k
        chunks(c) ==
            LET lows == c \cup {0}
                highs == c \cup {n}
            IN [k \in 1..Cardinality(lows) |-> RowRange(frame, nth(lows, k), nth(highs, k))]
    IN {chunks(c) : c \in {c \in SUBSET (1..(n - 1)) : Cardinality(c) < MaxParts}}

RECURSIVE Concat(_)
Concat(frames) ==
    IF frames = <<>> THEN <<>> ELSE Head(frames) \o Concat(Tail(frames))

\* dataset = nvt.Dataset(df)
MakeDataset ==
    /\ \/ pc = "etl_input"
       \/ pipeline = "getting_started" /\ pc = "raw"
    /\ ddf' \in Chunkings(df)
    /\ worker' = [k \in 1..Len(ddf') |-> "ready"]
    /\ part_out' = [k \in 1..Len(ddf') |-> {}]
    /\ pc' = "dataset"
    /\ UNCHANGED <<pipeline, df, sorted_df, stats, encoded, groupby_features, sessions_gdf,
                 files, raw_df, item_first_interaction_df, workflow_etl, serving_vars>>

\* workflow.fit: the task of one chunk adds the chunk's unique values and
\* moments to the reduction
FitPartition(k) ==
    /\ pc = "dataset" /\ worker[k] = "ready"
    /\ worker' = [worker EXCEPT ![k] = "reduced"]
    /\ UNCHANGED <<pipeline, pc, df, sorted_df, stats, encoded, groupby_features,
                 sessions_gdf, files, raw_df, item_first_interaction_df, workflow_etl,
                 ddf, part_out, serving_vars>>

\* a fit that returns as soon as one chunk is reduced
FitComplete_first(w) == \E k \in DOMAIN w : w[k] = "reduced"
\* workflow.fit returns when the reduction has the statistics of every chunk
FitComplete(w) == \A k \in DOMAIN w : w[k] = "reduced"

\* workflow.fit returns: the statistics of the reduced chunks are stored
FitReturn ==
    /\ pc = "dataset" /\ FitComplete(worker)
    /\ LET reduced == Filter(ddf, [k \in 1..Len(ddf) |-> worker[k] = "reduced"])
       IN stats' = WorkflowFit(pipeline, Concat(reduced))
    /\ pc' = "fitted"
    /\ UNCHANGED <<pipeline, df, sorted_df, encoded, groupby_features, sessions_gdf,
                 files, raw_df, item_first_interaction_df, workflow_etl, dataset_vars,
                 serving_vars>>

\* workflow.transform: the task of one chunk applies the whole graph, the
\* Groupby and the day_index LambdaOp included, to the rows of the chunk
TransformPartition(k) ==
    /\ pc = "fitted" /\ worker[k] # "transformed"
    /\ LET rows == [i \in 1..Len(ddf[k]) |-> TransformRow(pipeline, stats, ddf[k][i])]
           sorts == IF HasSortCols(pipeline)
                    THEN sort_values(rows, [i \in 1..Len(rows) |-> <<rows[i].ts>>])
                    ELSE {rows}
       IN \E sorted \in sorts :
            LET groups == Groupby(sorted)
            IN part_out' = [part_out EXCEPT ![k] = filtered_sessions(
                      {SessionRecord(pipeline, groups, s) : s \in DOMAIN groups})]
    /\ worker' = [worker EXCEPT ![k] = "transformed"]
    /\ UNCHANGED <<pipeline, pc, df, sorted_df, stats, encoded, groupby_features,
                 sessions_gdf, files, raw_df, item_first_interaction_df, workflow_etl,
                 ddf, serving_vars>>

\* .to_ddf().compute(): the records of all chunks
Compute ==
    /\ pc = "fitted" /\ \A k \in DOMAIN worker : worker[k] = "transformed"
    /\ sessions_gdf' = UNION {part_out[k] : k \in DOMAIN part_out}
    /\ pc' = "transformed"
    /\ UNCHANGED <<pipeline, df, sorted_df, stats, encoded, groupby_features,
                 files, raw_df, item_first_interaction_df, workflow_etl, dataset_vars,
                 serving_vars>>

\* frames of three sessions of 1, 2 or 5 events each
DatasetFrames(p) ==
    {GenSession(p, 1, len[1]) \o GenSession(p, 2, len[2])
        \o GenSession(p, 3, len[3]) \o <<LateRow(p)>> :
            len \in [GenSessions -> {1, MINIMUM_SESSION_LENGTH, 5}]}

InitDataset ==
    /\ pipeline \in Pipelines
    /\ df \in DatasetFrames(pipeline)
    /\ pc = "raw"
    /\ Fresh

NextDataset ==
    \/ RemoveNullSessions
    \/ CategorifySession
    \/ SortDedup
    \/ FirstSeenMerge
    \/ FirstWeekFilter
    \/ MakeDataset
    \/ \E k \in DOMAIN worker : FitPartition(k)
    \/ FitReturn
    \/ \E k \in DOMAIN worker : TransformPartition(k)
    \/ Compute

SpecDataset == InitDataset /\ [][NextDataset]_vars

(* ------------- ItemRecency.transform on a frame of its own ------------ *)
\* the operator applied to any frame that has the two columns, also one
\* whose first-seen column is later than the row's timestamp
RecencyTimes == {EarlyTime, NextDayTime, EarlyTime + 6 * SecondsPerDay}

RecencyRows(p) ==
    {[MkRow(p, 7, 3, t) EXCEPT !.first_ts = f] : t \in RecencyTimes, f \in RecencyTimes}

RecencyFrames(p) == UNION {[1..n -> RecencyRows(p)] : n \in 0..MaxRows}

InitRecency ==
    /\ pipeline \in {"tutorial", "yoochoose"}
    /\ df \in RecencyFrames(pipeline)
    /\ pc = "gdf"
    /\ Fresh

\* gdf[column + "_age_days"] = delta_days * (delta_days >= 0); `encoded'
\* holds the new column
ItemRecencyTransform ==
    /\ pc = "gdf"
    /\ encoded' = [i \in 1..Len(df) |-> ItemRecency(df[i].ts, df[i].first_ts)]
    /\ pc' = "age_days"
    /\ UNCHANGED <<pipeline, df, sorted_df, stats, groupby_features, sessions_gdf, files,
                 raw_df, item_first_interaction_df, workflow_etl, dataset_vars, serving_vars>>

NextRecency == ItemRecencyTransform

SpecRecency == InitRecency /\ [][NextRecency]_vars

(* ------------- the relative price feature on its own frame ------------ *)
\* epsilon = 1e-5; prices and their sums are counted in this unit, so that
\* a mean is the exact fraction sum/n
epsilon == 1

\* prices around the guard, as multiples of epsilon: below -epsilon,
\* -epsilon itself, zero, and two positive prices
Prices == {0 - 2, 0 - epsilon, 0, 1, 3}
PriceCategories == {2053, 2103}

PriceRows == {[category_id |-> c, price |-> x] : c \in PriceCategories, x \in Prices}

PriceFrames == UNION {[1..n -> PriceRows] : n \in 0..MaxRows}

\* a float: a finite fraction num/den, an infinity, or not-a-number
Finite(num, den) == [kind |-> "finite", num |-> num, den |-> den]
Inf == [kind |-> "inf", num |-> 0, den |-> 0]
NaN == [kind |-> "nan", num |-> 0, den |-> 0]

\* x / y of two fractions with one denominator n: the quotient of the
\* numerators; a division by zero gives an infinity, 0/0 not-a-number
FloatDiv(x, y) ==
    IF y # 0 THEN Finite(x, y)
    ELSE IF x = 0 THEN NaN ELSE Inf

\* x * (0 or 1): not-a-number stays, an infinity times 0 is not-a-number
FloatTimes(x, mask) ==
    CASE x.kind = "nan" -> NaN
      [] x.kind = "inf" -> IF mask = 0 THEN NaN ELSE Inf
      [] OTHER -> Finite(x.num * mask, x.den)

\* JoinGroupby(cont_cols=['price'], stats=["mean"]) on category_id: the
\* sum and the number of the prices of each category
JoinGroupbyMean(frame) ==
    [c \in {frame[i].category_id : i \in 1..Len(frame)} |->
        LET g == Filter(frame, [i \in 1..Len(frame) |-> frame[i].category_id = c])
        IN [sum |-> SumSeq([i \in 1..Len(g) |-> g[i].price]), n |-> Len(g)]]

\* ((gdf['price'] - col) / (col + epsilon)) * (col > 0).astype(int), with
\* col the mean sum/n: both terms of the quotient are taken over n
relative_price_to_avg_categ(col, price) ==
    FloatTimes(FloatDiv(price * col.n - col.sum, col.sum + epsilon * col.n),
               Bool01(col.sum > 0))

InitPrice ==
    /\ pipeline = "tutorial"
    /\ df \in PriceFrames
    /\ pc = "price_gdf"
    /\ Fresh

\* the LambdaOp on the joined mean; `groupby_features' holds the means and
\* `encoded' the new column
RelativePrice ==
    /\ pc = "price_gdf"
    /\ groupby_features' = JoinGroupbyMean(df)
    /\ encoded' = [i \in 1..Len(df) |->
          relative_price_to_avg_categ(groupby_features'[df[i].category_id], df[i].price)]
    /\ pc' = "relative_price"
    /\ UNCHANGED <<pipeline, df, sorted_df, stats, sessions_gdf, files,
                 raw_df, item_first_interaction_df, workflow_etl, dataset_vars, serving_vars>>

NextPrice == RelativePrice

SpecPrice == InitPrice /\ [][NextPrice]_vars

(* ============================ properties ============================== *)
Produced == pc \in {"transformed", "last_days", "saved"}

ListNames == {"item_list", "category_list", "wd_sin_list", "recency_list"}

ColumnOf(name) ==
    CASE name = "item_list" -> "item" [] name = "category_list" -> "category"
      [] name = "wd_sin_list" -> "wd_sin" [] OTHER -> "recency"

Least(a, b) == IF a < b THEN a ELSE b

\* the rows of the workflow input that belong to the session of code s
RowsOf(s) == {i \in 1..Len(encoded) : encoded[i].session = s}
RawCount(s) == Cardinality(RowsOf(s))

\* exactly N entries: the session's first values, then zeros
PaddedShape(r, name) ==
    LET l == r[name]
        k == Least(RawCount(r.session), SESSIONS_MAX_LENGTH)
    IN /\ Len(l) = SESSIONS_MAX_LENGTH
       /\ \A i \in 1..SESSIONS_MAX_LENGTH :
            l[i] = IF i <= k THEN groupby_features[r.session][name][i] ELSE 0

\* the session's first values and nothing after them
TruncatedShape(r, name) ==
    LET l == r[name]
        k == Least(RawCount(r.session), SESSIONS_MAX_LENGTH)
    IN /\ Len(l) = k
       /\ \A i \in 1..k : l[i] = groupby_features[r.session][name][i]

\* C1 as stated: in each of the three pipelines every list of every output
\* record has exactly SESSIONS_MAX_LENGTH entries, the first
\* min(raw_count, N) being the session's values and the rest the padding 0.
C1_EveryPipelinePadsToN ==
    Produced => \A r \in sessions_gdf : \A name \in ListNames : PaddedShape(r, name)

\* C1 amended: the tutorial and Yoochoose pipelines (ListSlice with
\* pad=True) give exactly N entries with zeros after the session's values;
\* the getting-started pipeline (ListSlice(0,20), no pad) gives the first
\* min(raw_count, N) values and no padding.
C1_PadsWherePadIsSet ==
    Produced =>
        \A r \in sessions_gdf : \A name \in ListNames :
            IF pipeline \in {"tutorial", "yoochoose"}
            THEN PaddedShape(r, name) ELSE TruncatedShape(r, name)

\* a short and a long session in one output, the short one padded or not
C1_Witness ==
    /\ pc = "transformed"
    /\ \E r1, r2 \in sessions_gdf :
          /\ RawCount(r1.session) < SESSIONS_MAX_LENGTH
          /\ RawCount(r2.session) > SESSIONS_MAX_LENGTH
          /\ Len(r2.item_list) = SESSIONS_MAX_LENGTH
          /\ Len(r1.item_list) = IF pipeline = "getting_started"
                                 THEN RawCount(r1.session) ELSE SESSIONS_MAX_LENGTH

InOutput(s) == \E r \in sessions_gdf : r.session = s

InFiles(s) ==
    \E d \in DOMAIN files : \E f \in DOMAIN files[d] : \E r \in files[d][f] : r.session = s

\* C2: a session with fewer than MINIMUM_SESSION_LENGTH events in the
\* workflow input has no record in the workflow output nor in any file of
\* any day; a session with at least that many has a record in the workflow
\* output.
C2_MinimumSessionLength ==
    Produced =>
        \A i \in 1..Len(encoded) :
            LET s == encoded[i].session
            IN /\ RawCount(s) < MINIMUM_SESSION_LENGTH => ~InOutput(s) /\ ~InFiles(s)
               /\ RawCount(s) >= MINIMUM_SESSION_LENGTH /\ pc = "transformed" => InOutput(s)

\* files were written from an input with a one-event session and a longer one
C2_Witness ==
    /\ pc = "saved"
    /\ DOMAIN files # {}
    /\ \E i, j \in 1..Len(encoded) :
          /\ RawCount(encoded[i].session) = 1
          /\ RawCount(encoded[j].session) >= MINIMUM_SESSION_LENGTH
          /\ InFiles(encoded[j].session)

\* the item sequence of one session of a frame, in frame order
ItemsOf(frame, s) ==
    LET rows == Filter(frame, [i \in 1..Len(frame) |-> frame[i].session = s])
    IN [i \in 1..Len(rows) |-> rows[i].item]

\* a list with each maximal run of equal adjacent entries cut to its first
Collapse(l) == Filter(l, [i \in 1..Len(l) |-> i = 1 \/ l[i] # l[i - 1]])

\* C3: after the sort by (session, timestamp), the surviving item sequence
\* of every session is its sorted sequence with each maximal run of equal
\* adjacent items collapsed to the run's first event.
C3_LocalDeduplication ==
    pc = "dedup" =>
        \A s \in {sorted_df[i].session : i \in 1..Len(sorted_df)} :
            ItemsOf(df, s) = Collapse(ItemsOf(sorted_df, s))

Ascending(rows) == \A i, j \in 1..Len(rows) : i < j => rows[i].ts <= rows[j].ts

\* rows holds exactly the encoded rows of session s, each as often
ArrangementOf(rows, s) ==
    /\ Len(rows) = RawCount(s)
    /\ \A i \in RowsOf(s) :
          Cardinality({k \in 1..Len(rows) : rows[k] = encoded[i]})
            = Cardinality({j \in RowsOf(s) : encoded[j] = encoded[i]})

\* the output holds a count-1, a count-5 and a count-25 session and no other
Counts_1_5_25 ==
    /\ Cardinality(DOMAIN groupby_features) = 3
    /\ \E a, b, c \in DOMAIN groupby_features :
          RawCount(a) = 1 /\ RawCount(b) = 5 /\ RawCount(c) = 25

\* C4 (tutorial and Yoochoose pipelines): a surviving session has exactly
\* one record; for a session of more than N events each list has exactly N
\* entries and entry i is the value of the session's i-th event in
\* ascending timestamp order, the later events being discarded; an input
\* with sessions of 1, 5 and 25 events yields exactly 2 records.
C4_OneLeftAnchoredWindow ==
    pc = "transformed" /\ pipeline \in {"tutorial", "yoochoose"} =>
        /\ \A r1, r2 \in sessions_gdf : r1.session = r2.session => r1 = r2
        /\ \A s \in DOMAIN groupby_features :
              RawCount(s) >= MINIMUM_SESSION_LENGTH => InOutput(s)
        /\ \A r \in sessions_gdf :
              RawCount(r.session) > SESSIONS_MAX_LENGTH =>
                  LET ordered == groupby_features[r.session].rows
                  IN /\ Ascending(ordered)
                     /\ ArrangementOf(ordered, r.session)
                     /\ \A name \in ListNames :
                          /\ Len(r[name]) = SESSIONS_MAX_LENGTH
                          /\ \A i \in 1..SESSIONS_MAX_LENGTH :
                                r[name][i] = ordered[i][ColumnOf(name)]
        /\ Counts_1_5_25 => Cardinality(sessions_gdf) = 2

\* sessions of 1, 5 and 25 events went through the tutorial pipeline
C4_Witness ==
    /\ pc = "transformed" /\ pipeline = "tutorial"
    /\ Counts_1_5_25
    /\ Cardinality(sessions_gdf) = 2
    /\ \E r \in sessions_gdf : RawCount(r.session) = 25

\* C5: in the Groupby output every list aggregate of a session has the
\* same length, the value of the session's count aggregate, which is the
\* number of the session's rows in the workflow input.
C5_ListsHaveCountLength ==
    Produced =>
        \A s \in DOMAIN groupby_features :
            /\ groupby_features[s].item_count = RawCount(s)
            /\ \A name \in ListNames :
                  Len(groupby_features[s][name]) = groupby_features[s].item_count

\* a one-event session and one longer than the window were aggregated
C5_Witness ==
    /\ pc = "transformed"
    /\ \E s, t \in DOMAIN groupby_features :
          /\ groupby_features[s].item_count = 1
          /\ groupby_features[t].item_count > SESSIONS_MAX_LENGTH
          /\ Len(groupby_features[t].recency_list) > SESSIONS_MAX_LENGTH

\* the rows of session s in frame order
SessionRows(s) == Filter(encoded, [i \in 1..Len(encoded) |-> encoded[i].session = s])

\* ascending timestamps, rows of equal timestamp in their given order
StableByTs(rows) ==
    LET n == Len(rows)
        pos == [i \in 1..n |->
                   Cardinality({j \in 1..n : rows[j].ts < rows[i].ts})
                 + Cardinality({j \in 1..i : rows[j].ts = rows[i].ts})]
    IN [p \in 1..n |-> rows[CHOOSE i \in 1..n : pos[i] = p]]

\* C6: in every pipeline the events of each session are aggregated in
\* ascending timestamp order, events of equal timestamp in their original
\* row order, and every list of the session follows that one order.
C6_AscendingStableOrder ==
    pc = "transformed" =>
        \A s \in DOMAIN groupby_features :
            LET ordered == StableByTs(SessionRows(s))
            IN \A name \in ListNames :
                  groupby_features[s][name]
                    = [i \in 1..Len(ordered) |-> ordered[i][ColumnOf(name)]]

Observed(col) == {df[i][col] : i \in 1..Len(df)} \ {Null}

\* C7: for each Categorify column the codes of the workflow output map the
\* observed values one-to-one onto 2..cardinality and the nulls to the
\* reserved code 1, where cardinality is the number of observed values
\* plus one: no row is dropped, every code lies in 1..cardinality, every
\* code above 1 is used, and no row has the code 0.
C7_CategorifyBijection ==
    Produced =>
        /\ Len(encoded) = Len(df)
        /\ \A col \in {"session", "item", "category"} :
              LET cardinality == Cardinality(Observed(col)) + 1
              IN /\ \A i, j \in 1..Len(df) :
                      (df[i][col] = df[j][col]) <=> (encoded[i][col] = encoded[j][col])
                 /\ \A i \in 1..Len(df) :
                      /\ encoded[i][col] \in 1..cardinality
                      /\ encoded[i][col] # 0
                      /\ (df[i][col] = Null) <=> (encoded[i][col] = START_INDEX)
                 /\ \A c \in 2..cardinality :
                      \E i \in 1..Len(df) : encoded[i][col] = c

\* a column with a null and two distinct values was encoded
C7_Witness ==
    /\ pc = "transformed"
    /\ \E i, j, k \in 1..Len(df) :
          /\ df[i].category = Null /\ encoded[i].category = 1
          /\ df[j].category # Null /\ encoded[j].category = 2
          /\ df[j].session # df[k].session /\ encoded[j].session # encoded[k].session

\* C8: ItemRecency.transform gives max(0, (timestamp - first seen) / 86400)
\* for every row: the fraction has the denominator 86400 and the
\* numerator max(0, timestamp - first seen), so it is 0 when the row is
\* earlier than the item's first-seen timestamp and never negative.
C8_RecencyClampedAtZero ==
    pc = "age_days" =>
        /\ Len(encoded) = Len(df)
        /\ \A i \in 1..Len(df) :
              LET delta == df[i].ts - df[i].first_ts
              IN /\ encoded[i].den = 86400
                 /\ encoded[i].num = IF delta > 0 THEN delta ELSE 0
                 /\ encoded[i].num >= 0
                 /\ df[i].ts < df[i].first_ts => encoded[i].num = 0

\* a row earlier than its item's first-seen timestamp got 0, a later one not
C8_Witness ==
    /\ pc = "age_days"
    /\ \E i, j \in 1..Len(df) :
          /\ df[i].ts < df[i].first_ts /\ encoded[i].num = 0
          /\ df[j].ts > df[j].first_ts /\ encoded[j].num > 0

\* the timestamp of the first event of the session of code s
FirstEvent(s) == Min({df[i].ts : i \in RowsOf(s)})
\* the earliest first event over all sessions of the workflow input
EarliestEvent == Min({df[i].ts : i \in 1..Len(df)})
CalendarDay(ts) == ts \div SecondsPerDay

\* C9 as stated: the day index is the difference of the calendar dates of
\* the session's first event and of the earliest first event, plus 1.
C9_CalendarDateDifference ==
    pc = "transformed" /\ pipeline \in {"tutorial", "yoochoose"} =>
        \A r \in sessions_gdf :
            r.day_index
              = CalendarDay(FirstEvent(r.session)) - CalendarDay(EarliestEvent) + 1

\* C9 amended: the day index is the number of whole 24-hour periods from
\* the earliest first event of any session of the workflow input to the
\* session's first event, plus 1: the session with the earliest first
\* event gets 1 and a session starting exactly 6 days after it gets 7.
C9_ElapsedWholeDays ==
    pc = "transformed" /\ pipeline \in {"tutorial", "yoochoose"} =>
        \A r \in sessions_gdf :
            LET elapsed == FirstEvent(r.session) - EarliestEvent
            IN /\ r.day_index = (elapsed \div 86400) + 1
               /\ elapsed = 0 => r.day_index = 1
               /\ elapsed = 6 * 86400 => r.day_index = 7

\* one session starts on the next calendar date within 24 hours of the
\* earliest first event, another exactly 6 days after it
C9_Witness ==
    /\ pc = "transformed" /\ pipeline = "tutorial"
    /\ \E r1, r2, r3 \in sessions_gdf :
          /\ FirstEvent(r1.session) = EarliestEvent /\ r1.day_index = 1
          /\ CalendarDay(FirstEvent(r2.session)) = CalendarDay(EarliestEvent) + 1
          /\ r2.day_index = 1
          /\ FirstEvent(r3.session) = EarliestEvent + 6 * 86400 /\ r3.day_index = 7

RECURSIVE Gcd(_, _)
Gcd(a, b) == IF b = 0 THEN a ELSE Gcd(b, a % b)

Sign(x) == IF x > 0 THEN 1 ELSE IF x < 0 THEN 0 - 1 ELSE 0

\* the square of (x - mean) / std in lowest terms, for the standard
\* deviation with the given degrees of freedom removed
SquaredScore(t, ddof) ==
    LET num == t.dev * t.dev * (t.n - ddof)
        den == t.n * t.ss
        g == Gcd(num, den)
    IN [num |-> num \div g, den |-> den \div g]

\* two normalized values are the same number (either convention of the
\* standard deviation; a zero deviation on either side is not compared)
SameNormalized(a, b) ==
    \/ a.ss = 0 \/ b.ss = 0 \/ a.n < 2 \/ b.n < 2
    \/ /\ Sign(a.dev) = Sign(b.dev)
       /\ \E ddof \in {0, 1} : SquaredScore(a, ddof) = SquaredScore(b, ddof)

\* the day of the session a row of the workflow input belongs to
RowDay(i) == ((FirstEvent(encoded[i].session) - EarliestEvent) \div SecondsPerDay) + 1

\* C10: the normalized recency of a row does not depend on the rows of
\* later days: fitting the workflow on the rows of the days up to d alone
\* gives every row of those days the normalized value it has in the output.
C10_NoLaterDayInStatistics ==
    pc = "transformed" /\ pipeline \in {"tutorial", "yoochoose"} =>
        \A d \in {RowDay(i) : i \in 1..Len(df)} :
            LET early == Filter(df, [i \in 1..Len(df) |-> RowDay(i) <= d])
                fit == WorkflowFit(pipeline, early)
            IN \A i \in 1..Len(df) :
                  RowDay(i) <= d =>
                      SameNormalized(encoded[i].recency,
                                     Normalize(fit, RecencyLog(df[i])))
FirstSeenComplete ==
    \A i \in 1..Len(df) : df[i].first_ts = ItemFirstTs(df)[df[i].item]

\* C12: whatever the order in which the tasks of the chunks run, no chunk
\* is transformed (recency, its normalization and what follows) before
\* both reductions are complete: the first-seen value of every row is the
\* minimum over all rows, and the stored statistics are those of all rows
\* of all chunks.
C12_BarrierBeforeTransform ==
    (\E k \in DOMAIN worker : worker[k] = "transformed") =>
        /\ stats = WorkflowFit(pipeline, df)
        /\ HasRecency(pipeline) =>
              item_first_interaction_df # NoTable /\ FirstSeenComplete

C12_Witness ==
    /\ HasRecency(pipeline) /\ Len(ddf) > 1
    /\ worker[1] = "reduced" /\ worker[2] = "transformed"
    /\ part_out[2] # {}
    /\ stats.n = Len(df) /\ Len(ddf[1]) > 0 /\ Len(ddf[2]) > 0
\* the chunks that hold rows of session s, and the rows s has in chunk k
ChunkRows(k, s) == {i \in 1..Len(ddf[k]) : ddf[k][i].session = s}
ChunksOf(s) == {k \in DOMAIN ddf : ChunkRows(k, s) # {}}
SessionCode(s) == Categorify(stats.session, START_INDEX, s)
RecordsOf(k, s) == {r \in part_out[k] : r.session = SessionCode(s)}
AllTransformed == worker # <<>> /\ \A k \in DOMAIN worker : worker[k] = "transformed"

WrittenTo(r) == {<<d, f>> \in (DOMAIN files) \X Splits : r \in files[d][f]}

\* C14: after save_time_based_splits there is one directory for each day
\* index that occurs in the session records and no other; each directory
\* has exactly the files train, valid and test; and every session record
\* is in exactly one file, a file of the directory of its own day index.
C14_OneFileOfOwnDay ==
    pc = "saved" =>
        /\ DOMAIN files = {r.day_index : r \in sessions_gdf}
        /\ \A d \in DOMAIN files : DOMAIN files[d] = Splits
        /\ \A r \in sessions_gdf :
              \E f \in Splits : WrittenTo(r) = {<<r.day_index, f>>}
        /\ \A d \in DOMAIN files : \A f \in Splits : files[d][f] \subseteq sessions_gdf

C14_Witness ==
    /\ pc = "saved"
    /\ Cardinality(DOMAIN files) >= 2
    /\ \E r1, r2 \in sessions_gdf :
          /\ r1.day_index # r2.day_index
          /\ WrittenTo(r1) = {<<r1.day_index, "train">>}
          /\ WrittenTo(r2) = {<<r2.day_index, "valid">>}
\* every workflow input the preprocessing cells can make of a raw frame
\* when the shifted columns are filled with `fill': one for each
\* arrangement sort_values may give to rows of equal key
Preprocessed(p, raw, fill) ==
    IF p = "getting_started" THEN {raw}
    ELSE
        LET nonnull == Filter(raw, [i \in 1..Len(raw) |-> raw[i].session # Null])
            u == Uniques(nonnull, "session")
            start == IF p = "tutorial"
                     THEN [i \in 1..Len(nonnull) |->
                            [nonnull[i] EXCEPT !.session = Categorify(u, 0, nonnull[i].session)]]
                     ELSE raw
            dedup(sorted) ==
                Filter(sorted, KeepMask(sorted, Shift1(sorted, "session", fill),
                                                Shift1(sorted, "item", fill)))
            merged(d) == MergeLeft(d, ItemFirstTs(d))
            week(m) == IF p = "tutorial"
                       THEN Filter(m, [i \in 1..Len(m) |-> m[i].ts < FirstWeekEnd])
                       ELSE m
        IN {week(merged(dedup(sorted))) :
                sorted \in sort_values(start, [i \in 1..Len(start) |->
                                                <<start[i].session, start[i].ts>>])}

\* every set of session records a run of the workflow can make of a
\* workflow input
Transformed(p, frame) ==
    LET st == WorkflowFit(p, frame)
        rows == [i \in 1..Len(frame) |-> TransformRow(p, st, frame[i])]
        sorts == IF HasSortCols(p)
                 THEN sort_values(rows, [i \in 1..Len(rows) |-> <<rows[i].ts>>])
                 ELSE {rows}
    IN {filtered_sessions({SessionRecord(p, Groupby(sorted), s) :
                                s \in DOMAIN Groupby(sorted)}) : sorted \in sorts}

\* the outputs of all runs on the same raw frame
Outputs(p, raw, fill) ==
    UNION {Transformed(p, frame) : frame \in Preprocessed(p, raw, fill)}

\* C15: the output of the workflow is a function of the raw frame alone:
\* every run of the same build on the same raw events, whatever order the
\* sorts give to rows of equal key, ends with the same set of session
\* records (the same lists, counts and day indexes) as this run.
C15_Deterministic ==
    pc = "transformed" =>
        \E fill \in PastFills :
            \A other \in Outputs(pipeline, raw_df, fill) : other = sessions_gdf
FitsBefore(i) == {j \in 1..(i - 1) : history[j].op = "fit"}

\* C19: the training loop fine-tunes day by day.  The k-th training call
\* is on the train file of day start + k - 1, a day below the final index;
\* it is at once followed by an evaluation on the valid file of the next
\* day, so that day t + 1 is evaluated before it is trained on; and no
\* evaluation is on a day of an earlier training call.  When the loop is
\* done every day from start to final - 1 has been trained on.
C19_DailyFineTuningOrder ==
    LET start == start_time_window_index(pipeline)
        final == final_time_window_index(pipeline)
    IN /\ \A i \in 1..Len(history) :
             /\ history[i].op = "fit" =>
                   /\ history[i] = Call("fit", start + Cardinality(FitsBefore(i)), "train")
                   /\ history[i].day < final
                   /\ i > 1 => history[i - 1] = Call("evaluate", history[i].day, "valid")
             /\ history[i].op = "evaluate" =>
                   /\ history[i].split = "valid"
                   /\ FitsBefore(i) # {}
                   /\ \A j \in FitsBefore(i) : history[j].day < history[i].day
                   /\ \E j \in FitsBefore(i) : history[j].day = history[i].day - 1
             /\ history[i].op \in {"fit", "evaluate"}
       /\ pc = "trained" => history[Len(history)].op = "fit"
       /\ LoopDone =>
             {history[j].day : j \in FitsBefore(Len(history))} = start..(final - 1)

C19_Witness ==
    /\ LoopDone
    /\ Len(history) >= 4
    /\ history[1] = Call("fit", start_time_window_index(pipeline), "train")
    /\ history[2] = Call("evaluate", start_time_window_index(pipeline) + 1, "valid")
    /\ history[3] = Call("fit", start_time_window_index(pipeline) + 1, "train")
\* the frame without the first-seen column the merge added
Unmerged(frame) == [i \in 1..Len(frame) |-> [frame[i] EXCEPT !.first_ts = Null]]

\* the raw rows that have a session key
RawNonNull == Filter(raw_df, [i \in 1..Len(raw_df) |-> raw_df[i].session # Null])

\* the rows of a sorted frame that do not repeat the session and the item
\* of the row before them
WithoutRepeats(sorted) ==
    Filter(sorted, [i \in 1..Len(sorted) |->
        i = 1 \/ sorted[i].session # sorted[i - 1].session
              \/ sorted[i].item # sorted[i - 1].item])

BySessionAndTime(frame) ==
    sort_values(frame, [i \in 1..Len(frame) |-> <<frame[i].session, frame[i].ts>>])

\* C20 (as claimed, of the tutorial preprocessing it cites): the frame
\* handed to the workflow is the raw frame, sorted by (session, timestamp),
\* less the rows with a null session key and less the rows that repeat the
\* item of the row before them in their session; every other row is there
\* with its fields as they were read.
C20_OnlyInvalidRowsRemoved ==
    pipeline = "tutorial" /\ pc = "etl_input" =>
        \E sorted \in BySessionAndTime(RawNonNull) :
            Unmerged(df) = WithoutRepeats(sorted)

\* C20 (amended, tutorial preprocessing): the frame handed to the workflow
\* is the raw frame less the rows with a null session key, with the
\* session key of every row replaced by its integer code, sorted by
\* (session code, timestamp), less the consecutive repeats, and less the
\* rows dated after the first week; the item, category and timestamp of
\* every remaining row are as they were read.
C20_TutorialNormalizer ==
    pipeline = "tutorial" /\ pc = "etl_input" =>
        LET u == Uniques(RawNonNull, "session")
            coded == [i \in 1..Len(RawNonNull) |->
                        [RawNonNull[i] EXCEPT !.session = Categorify(u, 0, @)]]
        IN \E sorted \in BySessionAndTime(coded) :
              LET kept == WithoutRepeats(sorted)
              IN Unmerged(df) =
                    Filter(kept, [i \in 1..Len(kept) |-> kept[i].ts < FirstWeekEnd])

C20_Witness ==
    /\ pipeline = "tutorial" /\ pc = "etl_input"
    /\ \E i \in 1..Len(raw_df) : raw_df[i].ts >= FirstWeekEnd
    /\ Len(df) >= MINIMUM_SESSION_LENGTH /\ Len(df) < Len(raw_df)
    /\ \A i \in 1..Len(df) :
          /\ df[i].ts < FirstWeekEnd
          /\ df[i].session \notin {raw_df[j].session : j \in 1..Len(raw_df)}

\* C21: the relative price of a row is (price - mean) / (mean + epsilon),
\* mean being the mean price of the row's category, when that mean is
\* positive, and exactly 0 when the mean is zero or negative; no row has
\* an infinite or not-a-number value.
C21_RelativePriceGuarded ==
    pc = "relative_price" =>
        \A i \in 1..Len(df) :
            LET mean == groupby_features[df[i].category_id]
                value == encoded[i]
            IN /\ value.kind = "finite"
               /\ mean.sum > 0 =>
                     value.num * (mean.sum + epsilon * mean.n)
                        = (df[i].price * mean.n - mean.sum) * value.den
               /\ mean.sum <= 0 => value.num = 0

\* C22: every inference request comes after a load_model of the ensemble
\* that returned without an exception and before every unload_model call,
\* and reaches a server that has the ensemble and its two models loaded;
\* after the final cell the server has none of the three models loaded.
C22_LoadInferUnload ==
    /\ \A i \in 1..Len(requests) :
          requests[i].op = "infer" =>
              /\ \E j \in 1..(i - 1) : requests[j] = Request("load", requests[i].model, TRUE)
              /\ \A j \in 1..(i - 1) : requests[j].op # "unload"
    /\ pc \in {"served", "visualized"} => ModelRepository \subseteq loaded
    /\ pc = "unloaded" => loaded \cap ModelRepository = {}

\* a run that loaded the ensemble, sent a non-empty request and unloaded
C22_Witness ==
    /\ pc = "unloaded"
    /\ batch # <<>>
    /\ Len(requests) = 5
    /\ requests[1].op = "load" /\ requests[2].op = "infer" /\ requests[3].op = "unload"

\* the session record the ensemble's workflow made of the rows of raw
\* session s of the request
RecordOf(s) ==
    CHOOSE r \in response.sessions :
        r.session = Categorify(ensemble.workflow.session, START_INDEX, s)

\* the distinct session ids of the request, in the order of the request
RequestSessions == drop_duplicates([i \in 1..Len(batch) |-> batch[i].session])

\* C23: every session id of the request occurs in at least 2 of its rows;
\* the minimum-session-length filter of the ensemble's workflow removes
\* none of the request's sessions; and the response has exactly one
\* prediction row for each distinct session of the request.
C23_RequestSessionsSurvive ==
    pc \in {"served", "visualized", "unloaded"} =>
        /\ \A i \in 1..Len(batch) :
              Cardinality({j \in 1..Len(batch) : batch[j].session = batch[i].session})
                 >= MINIMUM_SESSION_LENGTH
        /\ \A i \in 1..Len(RequestSessions) :
              Cardinality({r \in response.sessions :
                  r.session = Categorify(ensemble.workflow.session, START_INDEX,
                                         RequestSessions[i])}) = 1
        /\ Cardinality(response.sessions) = Len(RequestSessions)
        /\ Len(response.output_1) = Len(RequestSessions)

\* a request of two sessions was served after a session with one row among
\* the last rows had been left out of it
C23_Witness ==
    /\ pc = "served"
    /\ Len(df) <= BatchRows /\ Len(batch) < Len(df)
    /\ Len(RequestSessions) = 2
    /\ Len(response.output_1) = 2

FirstRowOf(frame, s) ==
    frame[CHOOSE i \in 1..Len(frame) :
            /\ frame[i].session = s
            /\ \A j \in 1..(i - 1) : frame[j].session # s]

\* C25: the first event of every session, in the order of the sort by
\* (session, timestamp), survives the deduplication, the first row of the
\* sorted frame included: after the mask every session of the sorted frame
\* still has rows, and its first row is the first row it had before.
C25_FirstEventSurvives ==
    pc = "dedup" =>
        \A s \in {sorted_df[i].session : i \in 1..Len(sorted_df)} :
            /\ \E i \in 1..Len(df) : df[i].session = s
            /\ FirstRowOf(df, s) = FirstRowOf(sorted_df, s)

\* C26: the first-seen table computed after the deduplication is the table
\* the same group-by-minimum gives on the frame before the deduplication:
\* every item of the sorted frame has an entry, with the minimum of all its
\* timestamps in the sorted frame.
C26_FirstSeenUnchangedByDedup ==
    HasRecency(pipeline) /\ pc \notin {"raw", "nonnull", "categorified", "dedup"} =>
        item_first_interaction_df = ItemFirstTs(sorted_df)

\* C27: every row that reaches ItemRecency in a run of the preprocessing
\* and the workflow (after the deduplication, the first-seen merge and,
\* in the tutorial, the first-week filter) has a timestamp at or after the
\* first-seen timestamp of its item, so the clamp of negative recencies
\* leaves the value as the plain difference gives it.
C27_ClampNeverActs ==
    HasRecency(pipeline) /\ pc \in {"etl_input", "fitted", "transformed", "last_days", "saved"} =>
        \A i \in 1..Len(df) :
            /\ df[i].first_ts # Null
            /\ df[i].ts >= df[i].first_ts
            /\ ItemRecency(df[i].ts, df[i].first_ts)
                  = ItemRecency_unclamped(df[i].ts, df[i].first_ts)

\* the tutorial's workflow ran on a frame that lost a row to the
\* first-week filter and has a row at, and a row after, its item's first
\* timestamp
C27_Witness ==
    /\ pipeline = "tutorial" /\ pc = "transformed"
    /\ \E k \in 1..Len(raw_df) : raw_df[k].ts >= FirstWeekEnd
    /\ \E i, j \in 1..Len(df) :
          /\ df[i].ts > df[i].first_ts
          /\ df[j].ts = df[j].first_ts

\* the earliest first event over all aggregated sessions, the ones the
\* minimum-session-length filter removes included
EarliestFirst == Min({groupby_features[s].ts_first : s \in DOMAIN groupby_features})

\* the workflows whose day index is the LambdaOp on the first event time
HasDayIndexOp(p) == p \in {"tutorial", "yoochoose"}

\* C28 (as claimed): whenever the workflow output is non-empty, some
\* output record has day index 1.
C28_OutputStartsAtDayOne ==
    pc = "transformed" /\ HasDayIndexOp(pipeline) /\ sessions_gdf # {} =>
        \E r \in sessions_gdf : r.day_index = 1

\* C28 (amended): the day index of every output record is 1 plus the
\* whole days elapsed between the earliest first event of all aggregated
\* sessions (filtered or not) and the record's own first event, hence at
\* least 1; the output has a record of day index 1 exactly when a session
\* that starts less than a day after that earliest first event has the
\* minimum session length.
C28_DayOneIffEarlySessionSurvives ==
    pc = "transformed" /\ HasDayIndexOp(pipeline) =>
        /\ \A r \in sessions_gdf :
              /\ r.day_index >= 1
              /\ r.day_index =
                    ((groupby_features[r.session].ts_first - EarliestFirst)
                        \div SecondsPerDay) + 1
        /\ (\E r \in sessions_gdf : r.day_index = 1)
              <=> \E s \in DOMAIN groupby_features :
                    /\ groupby_features[s].item_count >= MINIMUM_SESSION_LENGTH
                    /\ groupby_features[s].ts_first - EarliestFirst < SecondsPerDay

\* the earliest session was filtered out and the only output record has a
\* day index above 1, while another run kept a record of day index 1
C28_Witness ==
    /\ pc = "transformed" /\ HasDayIndexOp(pipeline)
    /\ sessions_gdf # {}
    /\ \A r \in sessions_gdf : r.day_index > 1
    /\ \E s \in DOMAIN groupby_features :
          /\ groupby_features[s].ts_first = EarliestFirst
          /\ groupby_features[s].item_count < MINIMUM_SESSION_LENGTH

\* the list features whose values are Categorify codes
CategoricalLists == {"item_list", "category_list"}

\* C29: in a pipeline that pads, every categorical list of an output
\* record has a 0 exactly at the positions past the session's number of
\* interactions: the codes of real events, the code of a null included,
\* are 1 or more, and every pad is 0.
C29_ZeroIffPadding ==
    Produced /\ HasPad(pipeline) =>
        \A r \in sessions_gdf : \A name \in CategoricalLists :
            \A i \in 1..Len(r[name]) :
                (r[name][i] = 0) <=> (i > RawCount(r.session))

\* the tutorial produced a padded record whose category list holds the
\* code of a null, and a record of a session longer than the window
C29_Witness ==
    /\ pc = "transformed" /\ pipeline = "tutorial"
    /\ \E r, q \in sessions_gdf :
          /\ RawCount(r.session) < SESSIONS_MAX_LENGTH
          /\ r.category_list[1] = START_INDEX
          /\ r.category_list[SESSIONS_MAX_LENGTH] = 0
          /\ RawCount(q.session) > SESSIONS_MAX_LENGTH
          /\ \A i \in 1..SESSIONS_MAX_LENGTH : q.item_list[i] # 0
====
